---- MODULE Spec2Model ----
(***************************************************************************)
(* The session manager of the fitness dashboard client (AuthProvider in    *)
(* src/unnamed/part_000, lines 97-171), the token endpoint wrapper authApi *)
(* (src/frontend/src/api/auth.ts, lines 21-72) and the route switch        *)
(* Navigation (src/frontend/src/api/auth.ts, lines 80-96).                 *)
(*                                                                         *)
(* Every `await` of the source is a suspension point: the code between two *)
(* awaits runs to completion on the single JS thread and is one action.    *)
(* The device storage and the backend answer on their own schedule, so the *)
(* effect of a storage write (the native side) and the resumption of the   *)
(* call that awaited it (the JS side) are two steps.                       *)
(***************************************************************************)
EXTENDS Naturals, Sequences, FiniteSets, Bags, TLC

\* ------------------------------------------------------------------ bounds
\* Number of auth calls that may be in flight at once.
MaxCalls == 2

\* ---------------------------------------------------------- value domains
\* A JS `T | null` is a sequence of length at most one.
None == <<>>
Some(v) == <<v>>

\* access_token values the backend may return (AuthResponse.access_token is
\* any string, the empty one included).
Tokens == {"tok1", "tok2", ""}
RefreshTokens == {"ref1"}
Emails == {"user@example.com", "other@example.com"}
Passwords == {"pw"}
FirstNames == {"Ada"}
LastNames == {"Lovelace"}

\* The keys of the device's key-value store that the model watches.
StorageKeys == {"token", "refresh_token"}

\* AuthResponse
AuthResponses ==
    [access_token : Tokens, refresh_token : RefreshTokens, token_type : {"bearer"}]

\* setError('Invalid email or password')
LoginErrorMessage == "Invalid email or password"

\* setError('Registration failed. Please try again.')
RegisterErrorMessage == "Registration failed. Please try again."

\* ------------------------------------------------------------------- state
VARIABLES
    isAuthenticated,  \* useState(false)
    loading,          \* useState(true)
    error,            \* useState<string | null>(null)
    storage,          \* AsyncStorage: key -> string | null
    startup,          \* the checkAuth() started by the mount effect
    calls,            \* the login / register / logout calls in flight (a bag: calls have no identity)
    last,             \* the step just taken (history)
    prev,             \* isAuthenticated of the previous process (history)
    overlapped,       \* a logout has been in flight together with a login or register (history)
    loggedOut,        \* how the latest logout completed, until the next login or register (history)
    race              \* bookkeeping of a burst of overlapping logins (history)

session == <<isAuthenticated, loading, error>>
vars == <<isAuthenticated, loading, error, storage, startup, calls, last, prev, overlapped, loggedOut, race>>

IdleCall ==
    [kind |-> "idle", pc |-> "idle", email |-> "", password |-> "",
     request |-> None, response |-> None, alone |-> FALSE]

InFlight == BagToSet(calls)
AllIdle == calls = EmptyBag
AuthCallInFlight == \E r \in InFlight : r.kind \in {"login", "register"}
LogoutInFlight == \E r \in InFlight : r.kind = "logout"

\* The call `r` moves on as `q`; the call `r` settles.
Continue(r, q) == (calls (-) SetToBag({r})) (+) SetToBag({q})
Settle(r) == calls (-) SetToBag({r})

\* `!!token`
Truthy(token) == token # None /\ token[1] # ""

NoStep == [op |-> "none", kind |-> "none", ok |-> TRUE]
Step(op, kind, ok) == [op |-> op, kind |-> kind, ok |-> ok]

\* A burst starts with a login invoked while nothing is in flight: `n` logins
\* invoked so far (3 stands for more), the session and token at its start, what
\* has settled since, the call that settled last, the latest token write.
NoRace == [n |-> 0, auth |-> FALSE, token |-> None, anyOk |-> FALSE, anyFail |-> FALSE,
           lastOk |-> FALSE, lastToken |-> None, written |-> None]

\* The state after AuthProvider's first render and mount effect: checkAuth has
\* called getItem; the device may hold a token from an earlier run.
Init ==
    /\ isAuthenticated = FALSE
    /\ loading = TRUE
    /\ error = None
    /\ \E t \in {None} \cup {Some(x) : x \in Tokens} :
         storage = [k \in StorageKeys |-> IF k = "token" THEN t ELSE None]
    /\ startup = [pc |-> "awaitGetItem", token |-> None, readOk |-> FALSE]
    /\ calls = EmptyBag
    /\ last = NoStep
    /\ prev = None
    /\ loggedOut = "no"
    /\ overlapped = FALSE
    /\ race = NoRace

\* ------------------------------------------------- pieces of the handlers
\* Variant: `token !== null` in place of `!!token`.
CheckAuthValuePresent(token) == token # None

\* checkAuth: setIsAuthenticated(!!token)
CheckAuthValue(token) == Truthy(token)

\* login: authApi.login({ username: email, password })
LoginCredentials(email, password) == [username |-> email, password |-> password]

\* authApi.login: the form posted to /api/v1/auth/token
AuthApiLogin(credentials) ==
    [path |-> "/api/v1/auth/token", grant_type |-> "password",
     username |-> credentials.username, password |-> credentials.password]

\* Variant: the arguments of the inner login are swapped.
InnerLoginArgsSwapped(email, password) == [email |-> password, password |-> email]

\* register: `await login(email, password)`
InnerLoginArgs(email, password) == [email |-> email, password |-> password]

\* Variant: the refresh token is stored in place of the access token.
TokenWriteRefresh(response) == [key |-> "token", value |-> response.refresh_token]

\* Variant: the token is stored under another key than the one checkAuth reads.
TokenWriteWrongKey(response) == [key |-> "refresh_token", value |-> response.access_token]

\* login: AsyncStorage.setItem('token', response.access_token)
TokenWrite(response) == [key |-> "token", value |-> response.access_token]

\* Variant: the catch also drops the session.
LoginCatchAuthCleared(auth) == FALSE

\* Variant: the catch rethrows without setting the error.
LoginCatchErrorSkipped(err) == err

\* login, catch: setError('Invalid email or password'); isAuthenticated is not touched
LoginCatchError(err) == Some(LoginErrorMessage)
LoginCatchAuth(auth) == auth

\* Variant: no finally block, loading is left as it is.
FinallyLoadingSkipped(cur) == cur

\* login and register, finally: setLoading(false)
FinallyLoading(cur) == FALSE

\* Variant: register's catch rethrows without setting the error.
RegisterCatchErrorSkipped(err) == err

\* register, catch: setError('Registration failed. Please try again.')
RegisterCatchError(err) == Some(RegisterErrorMessage)

\* Variant: the removal leaves the entry in place.
RemoveItemNoop(store, key) == store

\* logout: AsyncStorage.removeItem('token')
RemoveItem(store, key) == [store EXCEPT ![key] = None]

\* Variant: logout resumes without touching the session.
LogoutSetAuthSkipped(auth) == auth

\* logout, after removeItem: setIsAuthenticated(false)
LogoutSetAuth(auth) == FALSE

\* logout, catch: console.error only
LogoutCatchAuth(auth) == auth

\* What a failure inside login leaves in `error`: login's catch runs, and when
\* the login is the one register awaits, register's catch runs after it.
ErrorAfterFailure(kind, err) ==
    IF kind = "register" THEN RegisterCatchError(LoginCatchError(err))
    ELSE LoginCatchError(err)

\* Navigation: the spinner while loading, else the tab tree when authenticated,
\* else the auth tree.
Route ==
    IF loading THEN "ActivityIndicator"
    ELSE IF isAuthenticated THEN "TabNavigator" ELSE "AuthNavigator"

\* ---------------------------------------------------------------- checkAuth
\* The native read of AsyncStorage.getItem('token') completes.
CheckAuthGetItem ==
    /\ startup.pc = "awaitGetItem"
    /\ startup' = [pc |-> "gotItem", token |-> storage["token"], readOk |-> TRUE]
    /\ last' = Step("CheckAuthGetItem", "checkAuth", TRUE)
    /\ UNCHANGED <<session, storage, calls, prev, loggedOut, overlapped>>

\* checkAuth resumes: setIsAuthenticated(!!token); finally setLoading(false).
CheckAuthResume ==
    /\ startup.pc = "gotItem"
    /\ isAuthenticated' = CheckAuthValue(startup.token)
    /\ loading' = FALSE
    /\ startup' = [startup EXCEPT !.pc = "done"]
    /\ last' = Step("CheckAuthResume", "checkAuth", TRUE)
    /\ UNCHANGED <<error, storage, calls, prev, loggedOut, overlapped>>

\* getItem rejects: catch logs; finally setLoading(false).
CheckAuthFail ==
    /\ startup.pc = "awaitGetItem"
    /\ loading' = FALSE
    /\ startup' = [pc |-> "done", token |-> None, readOk |-> FALSE]
    /\ last' = Step("CheckAuthFail", "checkAuth", FALSE)
    /\ UNCHANGED <<isAuthenticated, error, storage, calls, prev, loggedOut, overlapped>>

\* -------------------------------------------------------------------- login
\* History: the logouts in flight stop being alone when a login or register starts.
NotAlone(r) == [r EXCEPT !.alone = FALSE]
Overlapped == BagOfAll(NotAlone, calls)

\* Consumers of useAuth are mounted below Navigation, which renders only the
\* spinner until the startup check has cleared `loading`; from then on the
\* context functions can be called by whoever holds them, whatever is in flight.
CanInvoke == startup.pc = "done" /\ BagCardinality(calls) < MaxCalls

\* login(email, password) up to its first await.
LoginInvoke(email, password) ==
    /\ CanInvoke
    /\ loading' = TRUE
    /\ error' = None
    /\ calls' = Overlapped (+) SetToBag({
         [kind |-> "login", pc |-> "awaitToken", email |-> email, password |-> password,
          request |-> Some(AuthApiLogin(LoginCredentials(email, password))),
          response |-> None, alone |-> FALSE]})
    /\ last' = Step("LoginInvoke", "login", TRUE)
    /\ loggedOut' = "no"
    /\ overlapped' = (overlapped \/ LogoutInFlight)
    /\ UNCHANGED <<isAuthenticated, storage, startup, prev>>

\* The token request succeeds; login calls AsyncStorage.setItem. The rest of
\* the call reads `response` only, so the arguments and the request are dropped.
TokenOk(r, response) ==
    /\ r.pc = "awaitToken"
    /\ calls' = Continue(r, [IdleCall EXCEPT !.kind = r.kind, !.pc = "awaitSetItem",
                                              !.response = Some(response)])
    /\ last' = Step("TokenOk", r.kind, TRUE)
    /\ UNCHANGED <<session, storage, startup, prev, loggedOut, overlapped>>

\* The call rejects out of login's try block: login's catch and finally, then
\* (inside register) register's catch and finally.
FailLogin(r, op) ==
    /\ error' = ErrorAfterFailure(r.kind, error)
    /\ isAuthenticated' = LoginCatchAuth(isAuthenticated)
    /\ loading' = FinallyLoading(loading)
    /\ calls' = Settle(r)
    /\ last' = Step(op, r.kind, FALSE)
    /\ UNCHANGED <<storage, startup, prev, loggedOut, overlapped>>

\* The token request is rejected by the backend (authApi.login logs and rethrows).
TokenFail(r) ==
    /\ r.pc = "awaitToken"
    /\ FailLogin(r, "TokenFail")

\* The native write of setItem completes.
SetItemOk(r) ==
    /\ r.pc = "awaitSetItem"
    /\ LET w == TokenWrite(r.response[1])
       IN  storage' = [storage EXCEPT ![w.key] = Some(w.value)]
    /\ calls' = Continue(r, [r EXCEPT !.pc = "setItemDone"])
    /\ last' = Step("SetItemOk", r.kind, TRUE)
    /\ UNCHANGED <<session, startup, prev, loggedOut, overlapped>>

\* setItem rejects: nothing is written.
SetItemFail(r) ==
    /\ r.pc = "awaitSetItem"
    /\ FailLogin(r, "SetItemFail")

\* login resumes after setItem: setIsAuthenticated(true); finally
\* setLoading(false); the call resolves (and with it the register awaiting it,
\* whose finally clears loading again).
LoginResume(r) ==
    /\ r.pc = "setItemDone"
    /\ isAuthenticated' = TRUE
    /\ loading' = FinallyLoading(loading)
    /\ calls' = Settle(r)
    /\ last' = Step("LoginResume", r.kind, TRUE)
    /\ UNCHANGED <<error, storage, startup, prev, loggedOut, overlapped>>

\* ----------------------------------------------------------------- register
\* register(email, password, firstName, lastName) up to its first await.
RegisterInvoke(email, password, firstName, lastName) ==
    /\ CanInvoke
    /\ loading' = TRUE
    /\ error' = None
    /\ calls' = Overlapped (+) SetToBag({
         [kind |-> "register", pc |-> "awaitCreate", email |-> email, password |-> password,
          request |-> None, response |-> None, alone |-> FALSE]})
    /\ last' = Step("RegisterInvoke", "register", TRUE)
    /\ loggedOut' = "no"
    /\ overlapped' = (overlapped \/ LogoutInFlight)
    /\ UNCHANGED <<isAuthenticated, storage, startup, prev>>

\* The user-creation request succeeds; register calls login, which runs up to
\* its first await.
CreateOk(r) ==
    /\ r.pc = "awaitCreate"
    /\ loading' = TRUE
    /\ error' = None
    /\ LET a == InnerLoginArgs(r.email, r.password)
       IN  calls' = Continue(r, [r EXCEPT !.pc = "awaitToken",
                       !.request = Some(AuthApiLogin(LoginCredentials(a.email, a.password)))])
    /\ last' = Step("CreateOk", "register", TRUE)
    /\ UNCHANGED <<isAuthenticated, storage, startup, prev, loggedOut, overlapped>>

\* The user-creation request is rejected: register's catch and finally.
CreateFail(r) ==
    /\ r.pc = "awaitCreate"
    /\ error' = RegisterCatchError(error)
    /\ loading' = FinallyLoading(loading)
    /\ calls' = Settle(r)
    /\ last' = Step("CreateFail", "register", FALSE)
    /\ UNCHANGED <<isAuthenticated, storage, startup, prev, loggedOut, overlapped>>

\* ------------------------------------------------------------------- logout
\* logout() up to its await.
LogoutInvoke ==
    /\ CanInvoke
    /\ calls' = calls (+) SetToBag({
         [IdleCall EXCEPT !.kind = "logout", !.pc = "awaitRemoveItem",
                          !.alone = ~AuthCallInFlight]})
    /\ last' = Step("LogoutInvoke", "logout", TRUE)
    /\ overlapped' = (overlapped \/ AuthCallInFlight)
    /\ UNCHANGED <<session, storage, startup, prev, loggedOut>>

\* The native removal completes.
RemoveItemOk(r) ==
    /\ r.pc = "awaitRemoveItem"
    /\ storage' = RemoveItem(storage, "token")
    /\ calls' = Continue(r, [r EXCEPT !.pc = "removeItemDone"])
    /\ last' = Step("RemoveItemOk", "logout", TRUE)
    /\ UNCHANGED <<session, startup, prev, loggedOut, overlapped>>

\* logout resumes: setIsAuthenticated(false); the call resolves.
LogoutResume(r) ==
    /\ r.pc = "removeItemDone"
    /\ isAuthenticated' = LogoutSetAuth(isAuthenticated)
    /\ calls' = Settle(r)
    /\ last' = Step("LogoutResume", "logout", TRUE)
    /\ loggedOut' = IF r.alone THEN "clean" ELSE "dirty"
    /\ UNCHANGED <<loading, error, storage, startup, prev, overlapped>>

\* removeItem rejects: the catch logs, the call resolves.
RemoveItemFail(r) ==
    /\ r.pc = "awaitRemoveItem"
    /\ isAuthenticated' = LogoutCatchAuth(isAuthenticated)
    /\ calls' = Settle(r)
    /\ last' = Step("RemoveItemFail", "logout", FALSE)
    /\ UNCHANGED <<loading, error, storage, startup, prev, loggedOut, overlapped>>

\* ------------------------------------------------------------------ restart
\* The process ends and a new one starts: fresh useState values, the mount
\* effect starts checkAuth again, the device storage is what it was.
Restart ==
    /\ prev' = Some([auth |-> isAuthenticated, readOk |-> startup.readOk])
    /\ isAuthenticated' = FALSE
    /\ loading' = TRUE
    /\ error' = None
    /\ startup' = [pc |-> "awaitGetItem", token |-> None, readOk |-> FALSE]
    /\ calls' = EmptyBag
    /\ last' = Step("Restart", "none", TRUE)
    /\ loggedOut' = "no"
    /\ overlapped' = FALSE
    /\ UNCHANGED storage

\* ------------------------------------------------------------ specifications
Next ==
    \/ CheckAuthGetItem /\ UNCHANGED race
    \/ CheckAuthResume /\ UNCHANGED race
    \/ CheckAuthFail /\ UNCHANGED race
    \/ \E e \in Emails, p \in Passwords : LoginInvoke(e, p) /\ UNCHANGED race
    \/ \E r \in InFlight, a \in AuthResponses : TokenOk(r, a) /\ UNCHANGED race
    \/ \E r \in InFlight : TokenFail(r) /\ UNCHANGED race
    \/ \E r \in InFlight : SetItemOk(r) /\ UNCHANGED race
    \/ \E r \in InFlight : SetItemFail(r) /\ UNCHANGED race
    \/ \E r \in InFlight : LoginResume(r) /\ UNCHANGED race
    \/ \E e \in Emails, p \in Passwords, f \in FirstNames, l \in LastNames :
         RegisterInvoke(e, p, f, l) /\ UNCHANGED race
    \/ \E r \in InFlight : CreateOk(r) /\ UNCHANGED race
    \/ \E r \in InFlight : CreateFail(r) /\ UNCHANGED race
    \/ LogoutInvoke /\ UNCHANGED race
    \/ \E r \in InFlight : RemoveItemOk(r) /\ UNCHANGED race
    \/ \E r \in InFlight : LogoutResume(r) /\ UNCHANGED race
    \/ \E r \in InFlight : RemoveItemFail(r) /\ UNCHANGED race

Spec == Init /\ [][Next]_vars

\* One call at a time, and process restarts between calls: the client used
\* without overlapping auth calls.
NextSeq ==
    \/ CheckAuthGetItem /\ UNCHANGED race
    \/ CheckAuthResume /\ UNCHANGED race
    \/ CheckAuthFail /\ UNCHANGED race
    \/ AllIdle /\ \E e \in Emails, p \in Passwords : LoginInvoke(e, p) /\ UNCHANGED race
    \/ \E r \in InFlight, a \in AuthResponses : TokenOk(r, a) /\ UNCHANGED race
    \/ \E r \in InFlight : TokenFail(r) /\ UNCHANGED race
    \/ \E r \in InFlight : SetItemOk(r) /\ UNCHANGED race
    \/ \E r \in InFlight : SetItemFail(r) /\ UNCHANGED race
    \/ \E r \in InFlight : LoginResume(r) /\ UNCHANGED race
    \/ AllIdle /\ \E e \in Emails, p \in Passwords, f \in FirstNames, l \in LastNames :
         RegisterInvoke(e, p, f, l) /\ UNCHANGED race
    \/ \E r \in InFlight : CreateOk(r) /\ UNCHANGED race
    \/ \E r \in InFlight : CreateFail(r) /\ UNCHANGED race
    \/ AllIdle /\ LogoutInvoke /\ UNCHANGED race
    \/ \E r \in InFlight : RemoveItemOk(r) /\ UNCHANGED race
    \/ \E r \in InFlight : LogoutResume(r) /\ UNCHANGED race
    \/ \E r \in InFlight : RemoveItemFail(r) /\ UNCHANGED race
    \/ AllIdle /\ startup.pc = "done" /\ Restart /\ UNCHANGED race

SpecSeq == Init /\ [][NextSeq]_vars

\* Bursts of overlapping login calls, and nothing else, with the bookkeeping
\* of each burst.
RaceInvoke ==
    race' = IF AllIdle
            THEN [NoRace EXCEPT !.n = 1, !.auth = isAuthenticated, !.token = storage["token"]]
            ELSE [race EXCEPT !.n = IF race.n < 3 THEN race.n + 1 ELSE 3]

RaceSettle(ok, token) ==
    race' = [race EXCEPT !.anyOk = race.anyOk \/ ok, !.anyFail = race.anyFail \/ ~ok,
                         !.lastOk = ok, !.lastToken = token]

NextRace ==
    \/ CheckAuthGetItem /\ UNCHANGED race
    \/ CheckAuthResume /\ UNCHANGED race
    \/ CheckAuthFail /\ UNCHANGED race
    \/ \E e \in Emails, p \in Passwords : LoginInvoke(e, p) /\ RaceInvoke
    \/ \E r \in InFlight, a \in AuthResponses : TokenOk(r, a) /\ UNCHANGED race
    \/ \E r \in InFlight : TokenFail(r) /\ RaceSettle(FALSE, None)
    \/ \E r \in InFlight : SetItemOk(r) /\ race' = [race EXCEPT !.written = storage'["token"]]
    \/ \E r \in InFlight : SetItemFail(r) /\ RaceSettle(FALSE, None)
    \/ \E r \in InFlight : LoginResume(r) /\ RaceSettle(TRUE, Some(r.response[1].access_token))

SpecRace == Init /\ [][NextRace]_vars

\* ------------------------------------------------------------------ claims
LogoutSettled == last.op \in {"LogoutResume", "RemoveItemFail"}
StartupSettled == last.op \in {"CheckAuthResume", "CheckAuthFail"}

\* C1: when logout() has returned, authenticated is false and no token is
\* persisted, also when removeItem('token') failed, whatever the session was.
C1_LogoutAlwaysClears ==
    LogoutSettled => isAuthenticated = FALSE /\ ~Truthy(storage["token"])

\* C2 as stated: when a login call has failed on the token request,
\* authenticated is false, error is the login message and the call rejected.
C2_LoginFailureUnauthenticates ==
    (last.op = "TokenFail" /\ last.kind = "login") =>
        /\ isAuthenticated = FALSE
        /\ error = Some(LoginErrorMessage)
        /\ last.ok = FALSE

\* C2 amended: a login call that fails on the token request leaves error at
\* the login message and rejects, and leaves authenticated as it was.
C2_LoginFailureKeepsAuth ==
    [][(last'.op = "TokenFail" /\ last'.kind = "login") =>
          /\ isAuthenticated' = isAuthenticated
          /\ error' = Some(LoginErrorMessage)
          /\ last'.ok = FALSE]_vars

C2_Witness ==
    /\ last.op = "TokenFail" /\ last.kind = "login"
    /\ isAuthenticated = TRUE
    /\ error = Some(LoginErrorMessage)

C4_StartupCheck ==
    /\ startup.pc # "done" => loading = TRUE /\ isAuthenticated = FALSE
    /\ StartupSettled =>
         /\ loading = FALSE
         /\ isAuthenticated <=> (startup.readOk /\ Truthy(storage["token"]))

C4_Witness ==
    /\ last.op = "CheckAuthResume"
    /\ storage["token"] = Some("tok1")
    /\ isAuthenticated = TRUE

RegisterCalls == {r \in InFlight : r.kind = "register"}

C5_RegisterState ==
    /\ \A r \in RegisterCalls :
         /\ r.pc = "awaitCreate" => r.request = None
         /\ r.pc = "awaitToken" =>
              /\ r.request # None
              /\ r.request[1].path = "/api/v1/auth/token"
              /\ r.request[1].grant_type = "password"
              /\ r.request[1].username = r.email
              /\ r.request[1].password = r.password
    /\ last.op = "CreateFail" => ~last.ok
    /\ (last.kind = "register" /\ last.op \in {"TokenFail", "SetItemFail"}) => ~last.ok
    /\ (last.kind = "register" /\ last.ok /\ last.op \in {"LoginResume", "CreateFail", "TokenFail", "SetItemFail"}) =>
         last.op = "LoginResume" /\ isAuthenticated = TRUE

\* C5: register issues the token request only after the user-creation request
\* succeeded, with the email and password it was given; when user creation
\* fails no token request is issued; when the inner login fails register
\* rejects; register resolves only out of a login that set authenticated.
C5_RegisterThenLogin ==
    /\ [][last'.op = "CreateFail" =>
            \A q \in BagToSet(calls') : q.request # None => q \in InFlight]_vars
    /\ []C5_RegisterState

C5_Witness ==
    \E r \in RegisterCalls :
        /\ r.pc = "awaitToken"
        /\ r.email = "other@example.com"
        /\ r.request[1].username = "other@example.com"

\* C6: when a register call has rejected, on the user-creation request or on
\* the inner login, error is the registration message; error becomes the
\* login message only by the failure of a login called on its own.
C6_RegisterErrorMessage ==
    /\ []((last.kind = "register" /\ ~last.ok) => error = Some(RegisterErrorMessage))
    /\ [][(error' = Some(LoginErrorMessage) /\ error # Some(LoginErrorMessage)) =>
            (last'.kind = "login" /\ last'.op \in {"TokenFail", "SetItemFail"})]_vars

C6_Witness ==
    /\ last.kind = "register" /\ last.op = "TokenFail"
    /\ error = Some(RegisterErrorMessage)

\* C7: a login or register call sets loading when it starts and clears it when
\* it settles, on every path; once the startup check has completed, loading
\* is false whenever no login or register call is in flight.
C7_LoadingReset ==
    /\ last.op \in {"LoginInvoke", "RegisterInvoke", "CreateOk"} => loading = TRUE
    /\ last.op \in {"LoginResume", "TokenFail", "SetItemFail", "CreateFail"} => loading = FALSE
    /\ (startup.pc = "done" /\ ~AuthCallInFlight) => loading = FALSE

C7_Witness ==
    /\ last.op = "SetItemFail"
    /\ startup.pc = "done" /\ ~AuthCallInFlight
    /\ loading = FALSE

\* C8 as stated: after a restart that follows completed, non-overlapping
\* calls, the startup check ends with authenticated as it was before the restart.
C8_RestartKeepsSession ==
    (prev # None /\ StartupSettled) => isAuthenticated = prev[1].auth

\* C8 amended: the same, provided the token reads of both startup checks (the
\* restarted process's and the previous one's) succeeded and the stored token
\* is not the empty string; after a failed read the session is unauthenticated.
C8_RestartKeepsSessionWhenReadable ==
    (prev # None /\ StartupSettled) =>
        /\ (startup.readOk /\ prev[1].readOk /\ storage["token"] # Some("")) =>
              isAuthenticated = prev[1].auth
        /\ ~startup.readOk => isAuthenticated = FALSE

C8_Witness ==
    /\ prev # None /\ prev[1].auth = TRUE /\ prev[1].readOk
    /\ last.op = "CheckAuthResume"
    /\ isAuthenticated = TRUE

TwoLoginsSettled == AllIdle /\ race.n = 2

\* C9 as stated: after two overlapping logins have settled, authenticated,
\* error and the persisted token are what the call that settled last would
\* have produced alone from the state the first call started in.
C9_LastSettledWins ==
    TwoLoginsSettled =>
        /\ isAuthenticated = (IF race.lastOk THEN TRUE ELSE race.auth)
        /\ error = (IF race.lastOk THEN None ELSE Some(LoginErrorMessage))
        /\ storage["token"] = (IF race.lastOk THEN race.lastToken ELSE race.token)

\* C9 amended: a login invoked while another is in flight starts like any
\* other and both token requests are issued; after both have settled,
\* authenticated is true if either succeeded and otherwise as before, error is
\* the login message if either failed and otherwise null, and the persisted
\* token is the one written last, or as before if neither succeeded.
C9_OverlappingLogins ==
    /\ \A r \in InFlight : r.pc = "awaitToken" => r.request # None
    /\ (last.op = "LoginInvoke" /\ race.n = 2) =>
          /\ BagCardinality(calls) = 2
          /\ loading = TRUE
    /\ TwoLoginsSettled =>
          /\ isAuthenticated = (race.auth \/ race.anyOk)
          /\ error = (IF race.anyFail THEN Some(LoginErrorMessage) ELSE None)
          /\ storage["token"] = (IF race.anyOk THEN race.written ELSE race.token)
          /\ race.anyOk <=> race.written # None

C9_Witness ==
    /\ TwoLoginsSettled
    /\ race.anyOk /\ race.anyFail /\ ~race.lastOk
    /\ race.auth = FALSE /\ isAuthenticated = TRUE
    /\ error = Some(LoginErrorMessage)

\* C10 as stated: once a logout has completed after a successful removal,
\* authenticated is false and no token is stored until login or register is
\* next invoked.
C10_LogoutHolds ==
    loggedOut # "no" => isAuthenticated = FALSE /\ storage["token"] = None

\* C10 amended: the same, for a logout during which no login or register call
\* was in flight.
C10_LogoutHoldsWhenAlone ==
    loggedOut = "clean" => isAuthenticated = FALSE /\ storage["token"] = None

C10_Witness ==
    /\ loggedOut = "clean"
    /\ last.op = "RemoveItemFail"
    /\ isAuthenticated = FALSE /\ storage["token"] = None


AtRest == startup.pc = "done" /\ AllIdle

CredentialStored ==
    /\ isAuthenticated = TRUE => storage["token"] # None
    /\ Route = "TabNavigator" => storage["token"] # None

\* C11 as stated: whenever the startup check has completed and no login,
\* register or logout call is in flight, authenticated implies a token stored
\* under 'token', and the tab tree is never shown without one, for every
\* interleaving of the calls.
C11_AuthenticatedHasToken == AtRest => CredentialStored

\* C11 amended: the same, as long as no logout call has been in flight
\* together with a login or register call.
C11_AuthenticatedHasTokenWithoutOverlap == (AtRest /\ ~overlapped) => CredentialStored

C11_Witness ==
    /\ AtRest /\ ~overlapped
    /\ last.op = "LoginResume" /\ last.kind = "register"
    /\ Route = "TabNavigator"
    /\ storage["token"] = Some("tok2")

====
